---- MODULE Spec2Model ----
(***************************************************************************)
(* A model of cmake/generate_reflection.py of RTTM: the generator that     *)
(* walks the libclang declaration graph of C++ headers and writes the      *)
(* reflection registration code.                                           *)
(*                                                                         *)
(* A python str is a tuple of one-character strings, so that startswith,   *)
(* endswith, strip, split, join, the substring test and sorted() are       *)
(* computed as python computes them.  A translation unit is a tuple of     *)
(* cursor records; a cursor is its index in the tuple and the index 0      *)
(* stands for None.                                                        *)
(***************************************************************************)
EXTENDS Integers, Sequences, FiniteSets, TLC

\* ------------------------------------------------------------- bounds

\* Cursors added below the translation unit in the generated declaration graphs.
MaxAstNodes == 4

\* Header arguments handed to one run of main().
MaxHeaders == 2

\* Pointer declarators at the end of a drawn type spelling.
MaxPointerDepth == 2

\* ------------------------------------------------------------- python str

None == 0

Min(S) == CHOOSE x \in S : \A y \in S : x <= y

Max(S) == CHOOSE x \in S : \A y \in S : x >= y

Last(s) == s[Len(s)]

\* The characters of the modelled strings, in code point order.
Alphabet ==
  << " ", "&", "(", ")", "*", ",", ".", "/", "0", "1", "2", "3", "4", "5",
     "6", "7", "8", "9", ":", "<", ">", "A", "B", "C", "D", "E", "F", "G",
     "H", "I", "J", "K", "L", "M", "N", "O", "P", "Q", "R", "S", "T", "U",
     "V", "W", "X", "Y", "Z", "_", "a", "b", "c", "d", "e", "f", "g", "h",
     "i", "j", "k", "l", "m", "n", "o", "p", "q", "r", "s", "t", "u", "v",
     "w", "x", "y", "z", "~",
     \* the reasons of skipped_types, each one character here, in the order
     \* of the first characters of the source's strings (U+65E0, U+666E, U+975E)
     "no reflectable public members", "generic template", "non-public type" >>

Code(c) == CHOOSE i \in 1..Len(Alphabet) : Alphabet[i] = c

\* s.startswith(p)
StartsWith(s, p) == Len(s) >= Len(p) /\ SubSeq(s, 1, Len(p)) = p

\* s.endswith(p)
EndsWith(s, p) == Len(s) >= Len(p) /\ SubSeq(s, Len(s) - Len(p) + 1, Len(s)) = p

\* sub in s
Contains(s, sub) ==
  \E i \in 1..(Len(s) - Len(sub) + 1) : SubSeq(s, i, i + Len(sub) - 1) = sub

\* s.strip(): the blank is the only whitespace of the alphabet.
Strip(s) ==
  LET keep == {i \in 1..Len(s) : s[i] # " "}
  IN  IF keep = {} THEN << >> ELSE SubSeq(s, Min(keep), Max(keep))

\* s.split(sep): the pieces between the matches of sep found from the left.
RECURSIVE Split(_, _)
Split(s, sep) ==
  LET hits == {i \in 1..(Len(s) - Len(sep) + 1) : SubSeq(s, i, i + Len(sep) - 1) = sep}
  IN  IF hits = {} THEN << s >>
      ELSE << SubSeq(s, 1, Min(hits) - 1) >>
             \o Split(SubSeq(s, Min(hits) + Len(sep), Len(s)), sep)

\* sep.join(parts)
RECURSIVE Join(_, _)
Join(parts, sep) ==
  IF parts = << >> THEN << >>
  ELSE IF Len(parts) = 1 THEN parts[1]
  ELSE parts[1] \o sep \o Join(Tail(parts), sep)

\* a < b for python str: by code point, a proper prefix first.
RECURSIVE StrLess(_, _)
StrLess(a, b) ==
  IF b = << >> THEN FALSE
  ELSE IF a = << >> THEN TRUE
  ELSE IF a[1] = b[1] THEN StrLess(Tail(a), Tail(b))
  ELSE Code(a[1]) < Code(b[1])

\* sorted(S) for a set of str.
RECURSIVE Sorted(_)
Sorted(S) ==
  IF S = {} THEN << >>
  ELSE LET m == CHOOSE x \in S : \A y \in S \ {x} : StrLess(x, y)
       IN  << m >> \o Sorted(S \ {m})

s_colons == <<":", ":">>

s_lt == <<"<">>

s_gt == <<">">>

s_unnamed == <<"u", "n", "n", "a", "m", "e", "d">>

s_slash == <<"/">>

s_dot == <<".">>

s_usr == <<"/", "u", "s", "r", "/">>

s_include == <<"i", "n", "c", "l", "u", "d", "e">>

s_const == <<"c", "o", "n", "s", "t", " ">>

s_amp == <<"&">>

s_ampamp == <<"&", "&">>

s_star == <<"*">>

s_int == <<"i", "n", "t">>

s_comma_sp == <<",", " ">>

\* ------------------------------------------------------------- cursors

\* A cursor of the declaration graph.  children are the lexical children in
\* declaration order (get_children); semantic_parent may be another cursor
\* than the one that lists it (an out-of-line definition).
Cursor(kind, spelling, file, sem, children) ==
  [ kind |-> kind, spelling |-> spelling, displayname |-> spelling,
    file |-> file, semantic_parent |-> sem, children |-> children,
    access_specifier |-> "INVALID", is_static |-> FALSE,
    type |-> [kind |-> "INVALID", spelling |-> << >>, canonical |-> << >>,
              template |-> << >>, template_args |-> << >>],
    result_type |-> << >>, arguments |-> << >>, is_const |-> FALSE,
    is_scoped |-> FALSE, enum_type |-> << >> ]

AccessValues == {"PUBLIC", "PROTECTED", "PRIVATE"}

AggregateKinds == {"CLASS_DECL", "STRUCT_DECL"}

TypeKinds == {"CLASS_DECL", "STRUCT_DECL", "ENUM_DECL"}

\* The access a class (private) or a struct (public) starts with.
default_access(kind) == IF kind = "CLASS_DECL" THEN "PRIVATE" ELSE "PUBLIC"

\* The loop of get_effective_access over the parent's children from index i
\* on: <<current_access, found_cursor>> when it ends.
RECURSIVE scan_access(_, _, _, _, _)
scan_access(t, kids, i, cursor, current_access) ==
  IF i > Len(kids) THEN << current_access, FALSE >>
  ELSE IF t[kids[i]].kind = "CXX_ACCESS_SPEC_DECL"
       THEN scan_access(t, kids, i + 1, cursor, t[kids[i]].access_specifier)
  ELSE IF kids[i] = cursor THEN << current_access, TRUE >>
  ELSE scan_access(t, kids, i + 1, cursor, current_access)

\* A plausible slip: the default access of a struct for every parent.
get_effective_access_struct_default(t, cursor) ==
  LET parent == t[cursor].semantic_parent
  IN  IF parent = None \/ t[parent].kind \notin AggregateKinds THEN "PUBLIC"
      ELSE LET r == scan_access(t, t[parent].children, 1, cursor, "PUBLIC")
           IN  IF r[2] THEN r[1] ELSE "PUBLIC"

get_effective_access(t, cursor) ==
  LET parent == t[cursor].semantic_parent
  IN  IF parent = None \/ t[parent].kind \notin AggregateKinds THEN "PUBLIC"
      ELSE LET r == scan_access(t, t[parent].children, 1, cursor,
                                default_access(t[parent].kind))
           IN  IF r[2] THEN r[1] ELSE default_access(t[parent].kind)

\* A plausible slip: only the declaration's own access is looked at.
is_truly_public_own_only(t, cursor) ==
  IF cursor = None \/ t[cursor].kind = "TRANSLATION_UNIT" THEN TRUE
  ELSE ~(t[cursor].kind \in TypeKinds /\ get_effective_access(t, cursor) # "PUBLIC")

RECURSIVE is_truly_public(_, _)
is_truly_public(t, cursor) ==
  IF cursor = None \/ t[cursor].kind = "TRANSLATION_UNIT" THEN TRUE
  ELSE IF t[cursor].kind \in TypeKinds /\ get_effective_access(t, cursor) # "PUBLIC"
       THEN FALSE
  ELSE is_truly_public(t, t[cursor].semantic_parent)

\* ------------------------------------------------------------- names, files, templates

\* os.path.normpath on the paths of the model: "." and empty components go,
\* a leading "/" stays, and nothing left is ".".
normpath(path) ==
  LET parts == Split(path, s_slash)
      kept == SelectSeq(parts, LAMBDA x : x # << >> /\ x # s_dot)
      body == Join(kept, s_slash)
  IN  IF StartsWith(path, s_slash) THEN s_slash \o body
      ELSE IF body = << >> THEN s_dot
      ELSE body

is_external_type(t, cursor, processed_files) ==
  IF t[cursor].file = << >> THEN TRUE
  ELSE LET file_path == normpath(t[cursor].file)
       IN  /\ file_path \notin processed_files
           /\ (StartsWith(file_path, s_usr) \/ Contains(file_path, s_include))

is_static_member(t, cursor) ==
  IF t[cursor].kind = "FIELD_DECL" THEN t[cursor].is_static
  ELSE IF t[cursor].kind = "CXX_METHOD" THEN t[cursor].is_static
  ELSE FALSE

is_template_class(t, cursor) ==
  IF t[cursor].kind = "CLASS_TEMPLATE" THEN TRUE
  ELSE /\ Contains(t[cursor].spelling, s_lt)
       /\ Contains(t[cursor].spelling, s_gt)
       /\ \E i \in 1..Len(t[cursor].children) :
            t[t[cursor].children[i]].kind \in
              {"TEMPLATE_TYPE_PARAMETER", "TEMPLATE_NON_TYPE_PARAMETER"}

is_template_specialization(t, cursor) ==
  IF is_template_class(t, cursor) THEN FALSE
  ELSE Contains(t[cursor].displayname, s_lt) /\ Contains(t[cursor].displayname, s_gt)

\* The spellings of the named ancestors of cursor, outermost first.
RECURSIVE parent_names(_, _)
parent_names(t, parent) ==
  IF parent = None \/ t[parent].kind = "TRANSLATION_UNIT" THEN << >>
  ELSE parent_names(t, t[parent].semantic_parent)
         \o (IF t[parent].spelling # << >> /\ ~Contains(t[parent].spelling, s_unnamed)
             THEN << t[parent].spelling >> ELSE << >>)

get_qualified_name(t, cursor) ==
  Join(parent_names(t, t[cursor].semantic_parent)
         \o << IF is_template_specialization(t, cursor)
               THEN t[cursor].displayname ELSE t[cursor].spelling >>,
       s_colons)

\* The named namespaces directly around cursor, outermost first: the walk
\* stops at the first ancestor that is no namespace.
RECURSIVE namespace_names(_, _)
namespace_names(t, parent) ==
  IF parent = None \/ t[parent].kind # "NAMESPACE" THEN << >>
  ELSE namespace_names(t, t[parent].semantic_parent)
         \o (IF t[parent].spelling # << >> THEN << t[parent].spelling >> ELSE << >>)

get_namespace_path(t, cursor) ==
  Join(namespace_names(t, t[cursor].semantic_parent), s_colons)

\* The spelling of a member's type: the canonical type's for an elaborated
\* type, the template name and its parameters for an unexposed template
\* instance, the type's own spelling otherwise.
get_fully_qualified_type(type_obj) ==
  IF type_obj.kind = "ELABORATED" THEN type_obj.canonical
  ELSE IF type_obj.kind = "UNEXPOSED" /\ type_obj.template # << >>
       THEN type_obj.template \o s_lt \o Join(type_obj.template_args, s_comma_sp) \o s_gt
  ELSE type_obj.spelling

\* ------------------------------------------------------------- the headers and what the parser makes of them

NoFile == << >>

\* A declaration as written in a header: a cursor whose children are still
\* the nested declarations themselves.
Decl(kind, spelling, kids) == Cursor(kind, spelling, NoFile, None, kids)

Struct(name, kids) == Decl("STRUCT_DECL", name, kids)

Class(name, kids) == Decl("CLASS_DECL", name, kids)

Namespace(name, kids) == Decl("NAMESPACE", name, kids)

ClassTemplate(name, kids) == Decl("CLASS_TEMPLATE", name, kids)

\* An explicit specialization: the display name carries the arguments.
StructSpecialization(name, display, kids) ==
  [Decl("STRUCT_DECL", name, kids) EXCEPT !.displayname = display]

TemplateParam(name) == Decl("TEMPLATE_TYPE_PARAMETER", name, << >>)

AccessSpec(a) == [Decl("CXX_ACCESS_SPEC_DECL", << >>, << >>) EXCEPT !.access_specifier = a]

BuiltinType(spelling) ==
  [kind |-> "INT", spelling |-> spelling, canonical |-> spelling,
   template |-> << >>, template_args |-> << >>]

ElaboratedType(spelling, canonical) ==
  [kind |-> "ELABORATED", spelling |-> spelling, canonical |-> canonical,
   template |-> << >>, template_args |-> << >>]

Field(name, type) == [Decl("FIELD_DECL", name, << >>) EXCEPT !.type = type]

\* A static data member is a variable declaration to the parser.
StaticVar(name, type) ==
  [Decl("VAR_DECL", name, << >>) EXCEPT !.type = type, !.is_static = TRUE]

Method(name, result, args, const, static) ==
  [Decl("CXX_METHOD", name, << >>) EXCEPT
     !.result_type = result, !.arguments = args, !.is_const = const, !.is_static = static]

Constructor(name, args) == [Decl("CONSTRUCTOR", name, << >>) EXCEPT !.arguments = args]

Destructor(name) == Decl("DESTRUCTOR", name, << >>)

EnumConstant(name) == Decl("ENUM_CONSTANT_DECL", name, << >>)

Enum(name, scoped, constants) ==
  [Decl("ENUM_DECL", name, [i \in 1..Len(constants) |-> EnumConstant(constants[i])])
     EXCEPT !.is_scoped = scoped, !.enum_type = s_int]

\* The cursors of the declarations ds, numbered from id on in declaration
\* order (a declaration before its children), with the ids of ds themselves.
RECURSIVE FlattenList(_, _, _, _)
FlattenList(ds, id, sem, file) ==
  IF ds = << >> THEN [cursors |-> << >>, ids |-> << >>]
  ELSE LET below == FlattenList(ds[1].children, id + 1, id, file)
           first == << [ds[1] EXCEPT !.file = file, !.semantic_parent = sem,
                                     !.children = below.ids] >> \o below.cursors
           rest  == FlattenList(Tail(ds), id + Len(first), sem, file)
       IN  [cursors |-> first \o rest.cursors, ids |-> << id >> \o rest.ids]

\* The top-level declarations tops, each a pair <<file, declaration>>, below
\* the translation unit cursor.
RECURSIVE FlattenTops(_, _)
FlattenTops(tops, id) ==
  IF tops = << >> THEN [cursors |-> << >>, ids |-> << >>]
  ELSE LET first == FlattenList(<< tops[1][2] >>, id, 1, tops[1][1])
           rest  == FlattenTops(Tail(tops), id + Len(first.cursors))
       IN  [cursors |-> first.cursors \o rest.cursors, ids |-> first.ids \o rest.ids]

TranslationUnit(tops) ==
  LET below == FlattenTops(tops, 2)
  IN  << Cursor("TRANSLATION_UNIT", << >>, NoFile, None, below.ids) >> \o below.cursors

p_a == <<"a", ".", "h">>
p_dot_a == <<".", "/", "a", ".", "h">>
p_ns == <<"n", "s", ".", "h">>
p_t == <<"t", ".", "h">>
p_inc == <<"i", "n", "c", ".", "h">>
p_fwd == <<"f", "w", "d", ".", "h">>
p_def == <<"d", "e", "f", ".", "h">>
p_err == <<"e", "r", "r", ".", "h">>
p_re == <<"r", "e", ".", "h">>
p_anon == <<"a", "n", "o", "n", ".", "h">>
p_uses == <<"u", "s", "e", "s", ".", "h">>
p_bad == <<"b", "a", "d", ".", "h">>
p_pch == <<"/", "t", "m", "p", "/", "p", "c", "h", ".", "h", "p", "p">>

\* What "-include <scratch file>" puts in front of every translation unit.
Preamble ==
  << << p_pch, Namespace(<<"E", "x", "t", "e", "r", "n", "a", "l", "T", "y", "p", "e", "S", "t", "u", "b", "s">>,
                 << ClassTemplate(<<"s", "h", "a", "r", "e", "d", "_", "p", "t", "r">>, << TemplateParam(<<"T">>) >>) >>) >> >>

t_int == BuiltinType(s_int)

\* a.h:
\*   struct P { int x; };
\*   class Q { int x; };
\*   class Outer {
\*       struct Hidden { struct Deep { int d; }; };
\*     public:
\*       struct Vis { int v; };
\*       int o;
\*       static int n;
\*       static int count();
\*       Outer();
\*       ~Outer();
\*     protected:
\*       int guarded;
\*     private:
\*       int secret;
\*   };
DeclsA(file) ==
  << << file, Struct(<<"P">>, << Field(<<"x">>, t_int) >>) >>,
     << file, Class(<<"Q">>, << Field(<<"x">>, t_int) >>) >>,
     << file, Class(<<"O", "u", "t", "e", "r">>,
          << Struct(<<"H", "i", "d", "d", "e", "n">>, << Struct(<<"D", "e", "e", "p">>, << Field(<<"d">>, t_int) >>) >>),
             AccessSpec("PUBLIC"),
             Struct(<<"V", "i", "s">>, << Field(<<"v">>, t_int) >>),
             Field(<<"o">>, t_int),
             StaticVar(<<"n">>, t_int),
             Method(<<"c", "o", "u", "n", "t">>, s_int, << >>, FALSE, TRUE),
             Constructor(<<"O", "u", "t", "e", "r">>, << >>),
             Destructor(<<"~", "O", "u", "t", "e", "r">>),
             AccessSpec("PROTECTED"),
             Field(<<"g", "u", "a", "r", "d", "e", "d">>, t_int),
             AccessSpec("PRIVATE"),
             Field(<<"s", "e", "c", "r", "e", "t">>, t_int) >>) >> >>

\* ns.h:
\*   struct G { int g; };
\*   namespace NS {
\*     enum EnumName { A, B };
\*     struct Bar { int b; };
\*     class Foo {
\*      public:
\*       Foo(const Foo& other);
\*       const Foo& self() const;
\*       Bar* bar(int n);
\*       std::vector<int> v();
\*       int size;
\*     };
\*   }
\*   namespace M {
\*     enum class Color { R };
\*     struct Bar { int m; };
\*   }
DeclsNs ==
  << << p_ns, Struct(<<"G">>, << Field(<<"g">>, t_int) >>) >>,
     << p_ns, Namespace(<<"N", "S">>,
          << Enum(<<"E", "n", "u", "m", "N", "a", "m", "e">>, FALSE, << <<"A">>, <<"B">> >>),
             Struct(<<"B", "a", "r">>, << Field(<<"b">>, t_int) >>),
             Class(<<"F", "o", "o">>,
               << AccessSpec("PUBLIC"),
                  Constructor(<<"F", "o", "o">>, << <<"c", "o", "n", "s", "t", " ", "F", "o", "o", " ", "&">> >>),
                  Method(<<"s", "e", "l", "f">>, <<"c", "o", "n", "s", "t", " ", "F", "o", "o", " ", "&">>, << >>, TRUE, FALSE),
                  Method(<<"b", "a", "r">>, <<"B", "a", "r", " ", "*">>, << s_int >>, FALSE, FALSE),
                  Method(<<"v">>, <<"s", "t", "d", ":", ":", "v", "e", "c", "t", "o", "r", "<", "i", "n", "t", ">">>, << >>, FALSE, FALSE),
                  Field(<<"s", "i", "z", "e">>, t_int) >>) >>) >>,
     << p_ns, Namespace(<<"M">>,
          << Enum(<<"C", "o", "l", "o", "r">>, TRUE, << <<"R">> >>),
             Struct(<<"B", "a", "r">>, << Field(<<"m">>, t_int) >>) >>) >> >>

\* t.h:
\*   template<class T> struct Box { T val; struct In { int i; }; };
\*   template<> struct Box<int> { int val; };
DeclsT ==
  << << p_t, ClassTemplate(<<"B", "o", "x">>,
          << TemplateParam(<<"T">>),
             Field(<<"v", "a", "l">>, [kind |-> "UNEXPOSED", spelling |-> <<"T">>, canonical |-> <<"T">>,
                            template |-> << >>, template_args |-> << >>]),
             Struct(<<"I", "n">>, << Field(<<"i">>, t_int) >>) >>) >>,
     << p_t, StructSpecialization(<<"B", "o", "x">>, <<"B", "o", "x", "<", "i", "n", "t", ">">>, << Field(<<"v", "a", "l">>, t_int) >>) >> >>

\* inc.h:
\*   #include "a.h"
\*   struct W { P p; int w; };
\*   struct V { Q q; };
DeclsInc ==
  DeclsA(p_a)
    \o << << p_inc, Struct(<<"W">>, << Field(<<"p">>, ElaboratedType(<<"P">>, <<"P">>)),
                                   Field(<<"w">>, t_int) >>) >>,
          << p_inc, Struct(<<"V">>, << Field(<<"q">>, ElaboratedType(<<"Q">>, <<"Q">>)) >>) >> >>

\* fwd.h:
\*   struct P;
\*   enum class E : int;
DeclsFwd ==
  << << p_fwd, Struct(<<"P">>, << >>) >>,
     << p_fwd, Enum(<<"E">>, TRUE, << >>) >> >>

\* def.h:
\*   enum class E : int { A, B };
DeclsDef ==
  << << p_def, Enum(<<"E">>, TRUE, << <<"A">>, <<"B">> >>) >> >>

\* err.h, which the parser reports an error in and recovers from:
\*   struct Part { int ok; Missing m; };
DeclsErr ==
  << << p_err, Struct(<<"P", "a", "r", "t">>, << Field(<<"o", "k">>, t_int) >>) >> >>

\* re.h:
\*   struct R;
\*   struct R { int r; };
DeclsRe ==
  << << p_re, Struct(<<"R">>, << >>) >>,
     << p_re, Struct(<<"R">>, << Field(<<"r">>, t_int) >>) >> >>

\* anon.h, the unnamed struct with the empty spelling the parser gives it:
\*   struct { struct Inner { int i; }; int a; } u;
DeclsAnon ==
  << << p_anon, Struct(<< >>, << Struct(<<"I", "n", "n", "e", "r">>, << Field(<<"i">>, t_int) >>),
                                 Field(<<"a">>, t_int) >>) >>,
     << p_anon, Decl("VAR_DECL", <<"u">>, << >>) >> >>

\* uses.h:
\*   #include "anon.h"
\*   struct Z { int z; };
DeclsUses ==
  DeclsAnon \o << << p_uses, Struct(<<"Z">>, << Field(<<"z">>, t_int) >>) >> >>

Headers ==
  {p_a, p_dot_a, p_ns, p_t, p_inc, p_fwd, p_def, p_err, p_re, p_anon, p_uses, p_bad}

\* index.parse(header_file, ...): whether it raises, whether the translation
\* unit carries a diagnostic of severity Error or above, and the cursors.
parse(header_file) ==
  LET unit(tops, errors) ==
        [raises |-> FALSE, has_errors |-> errors, cursors |-> TranslationUnit(Preamble \o tops)]
  IN  CASE header_file = p_a     -> unit(DeclsA(p_a), FALSE)
        [] header_file = p_dot_a -> unit(DeclsA(p_dot_a), FALSE)
        [] header_file = p_ns    -> unit(DeclsNs, FALSE)
        [] header_file = p_t     -> unit(DeclsT, FALSE)
        [] header_file = p_inc   -> unit(DeclsInc, FALSE)
        [] header_file = p_fwd   -> unit(DeclsFwd, FALSE)
        [] header_file = p_def   -> unit(DeclsDef, FALSE)
        [] header_file = p_err   -> unit(DeclsErr, TRUE)
        [] header_file = p_re    -> unit(DeclsRe, FALSE)
        [] header_file = p_anon  -> unit(DeclsAnon, FALSE)
        [] header_file = p_uses  -> unit(DeclsUses, FALSE)
        [] OTHER                 -> [raises |-> TRUE, has_errors |-> FALSE, cursors |-> << >>]

\* ------------------------------------------------------------- the phases of process_header

\* d[k] = v for a python dict kept as a function.
Put(d, k, v) == [x \in DOMAIN d \cup {k} |-> IF x = k THEN v ELSE d[x]]

\* Phase 1.  The loop over the children of a class or struct cursor.
RECURSIVE scan_and_record_access(_, _, _)
RECURSIVE scan_members(_, _, _, _)
RECURSIVE scan_others(_, _, _, _)
scan_members(t, cursor, i, state) ==
  IF i > Len(t[cursor].children) THEN state
  ELSE LET child == t[cursor].children[i]
       IN  IF t[child].kind = "CXX_ACCESS_SPEC_DECL"
           THEN scan_members(t, cursor, i + 1, Put(state, cursor, t[child].access_specifier))
           ELSE IF t[child].kind \in TypeKinds
           THEN scan_members(t, cursor, i + 1,
                  scan_and_record_access(t, child,
                    Put(state, child,
                        IF cursor \in DOMAIN state THEN state[cursor] ELSE "PUBLIC")))
           ELSE scan_members(t, cursor, i + 1, state)

\* Phase 1.  The closing loop over the children that are no class or struct.
scan_others(t, cursor, i, state) ==
  IF i > Len(t[cursor].children) THEN state
  ELSE LET child == t[cursor].children[i]
       IN  IF t[child].kind \notin AggregateKinds
           THEN scan_others(t, cursor, i + 1, scan_and_record_access(t, child, state))
           ELSE scan_others(t, cursor, i + 1, state)

scan_and_record_access(t, cursor, state) ==
  scan_others(t, cursor, 1,
    IF t[cursor].kind \in AggregateKinds
    THEN scan_members(t, cursor, 1, Put(state, cursor, default_access(t[cursor].kind)))
    ELSE state)

\* A plausible slip: a key that is known keeps the entry it has.
SetTypeInfo_keeps_first(type_infos, info) ==
  IF \E i \in 1..Len(type_infos) : type_infos[i].qualified_name = info.qualified_name
  THEN type_infos
  ELSE Append(type_infos, info)

\* self.type_infos[qualified_name] = info: a known key keeps its place.
SetTypeInfo(type_infos, info) ==
  LET at == {i \in 1..Len(type_infos) : type_infos[i].qualified_name = info.qualified_name}
  IN  IF at = {} THEN Append(type_infos, info)
      ELSE [type_infos EXCEPT ![Min(at)] = info]

\* An entry of skipped_types: the name, a blank and the reason in brackets.
Skipped(name, reason) == name \o << " ", "(" >> \o << reason >> \o << ")" >>

type_name_of(t, cursor) ==
  IF is_template_specialization(t, cursor) THEN t[cursor].displayname ELSE t[cursor].spelling

type_info(t, child) ==
  LET parent == t[child].semantic_parent
      access == get_effective_access(t, child)
  IN  [ cursor |-> child,
        name |-> type_name_of(t, child),
        qualified_name |-> get_qualified_name(t, child),
        parent |-> parent,
        parent_is_class |-> IF parent # None THEN t[parent].kind = "CLASS_DECL" ELSE FALSE,
        parent_is_struct |-> IF parent # None THEN t[parent].kind = "STRUCT_DECL" ELSE FALSE,
        access |-> access,
        is_public |-> access = "PUBLIC",
        is_truly_public |-> is_truly_public(t, child),
        is_template |-> is_template_class(t, child),
        is_specialization |-> is_template_specialization(t, child),
        namespace |-> get_namespace_path(t, child) ]

\* Phase 2.  st holds type_infos, external_types and skipped_types.
RECURSIVE collect_all_types(_, _, _, _)
RECURSIVE collect_children(_, _, _, _, _)
collect_children(t, kids, i, processed_files, st) ==
  IF i > Len(kids) THEN st
  ELSE
    LET child == kids[i]
        type_name == type_name_of(t, child)
        after ==
          IF t[child].file # << >> /\ normpath(t[child].file) \notin processed_files
          THEN IF t[child].kind \in TypeKinds
               THEN [st EXCEPT !.external_types = @ \cup {t[child].spelling}]
               ELSE st
          ELSE IF t[child].kind \notin TypeKinds
          THEN collect_all_types(t, child, processed_files, st)
          ELSE IF type_name = << >> \/ Contains(type_name, s_unnamed)
          THEN st
          ELSE IF is_template_class(t, child) /\ ~is_template_specialization(t, child)
          THEN [st EXCEPT !.skipped_types = Append(@, Skipped(type_name, "generic template"))]
          ELSE IF is_external_type(t, child, processed_files)
          THEN [st EXCEPT !.external_types = @ \cup {type_name}]
          ELSE collect_all_types(t, child, processed_files,
                 [st EXCEPT !.type_infos = SetTypeInfo(@, type_info(t, child))])
    IN  collect_children(t, kids, i + 1, processed_files, after)

collect_all_types(t, cursor, processed_files, st) ==
  collect_children(t, t[cursor].children, 1, processed_files, st)

\* A plausible slip: the log of skipped types is started anew for the header.
filter_public_types_resets_skipped(st) ==
  LET dropped == SelectSeq(st.type_infos, LAMBDA info : ~info.is_truly_public)
  IN  [st EXCEPT
         !.type_infos = SelectSeq(@, LAMBDA info : info.is_truly_public),
         !.skipped_types =
            [i \in 1..Len(dropped) |-> Skipped(dropped[i].name, "non-public type")]]

\* A plausible slip: the filter reads the type's own access, not the chain's.
filter_public_types_by_is_public(st) ==
  LET dropped == SelectSeq(st.type_infos, LAMBDA info : ~info.is_public)
  IN  [st EXCEPT
         !.type_infos = SelectSeq(@, LAMBDA info : info.is_public),
         !.skipped_types =
            @ \o [i \in 1..Len(dropped) |-> Skipped(dropped[i].name, "non-public type")]]

\* Phase 3.
filter_public_types(st) ==
  LET dropped == SelectSeq(st.type_infos, LAMBDA info : ~info.is_truly_public)
  IN  [st EXCEPT
         !.type_infos = SelectSeq(@, LAMBDA info : info.is_truly_public),
         !.skipped_types =
            @ \o [i \in 1..Len(dropped) |-> Skipped(dropped[i].name, "non-public type")]]

\* any(ext_type in spelling for ext_type in self.external_types)
references_external(spelling, external_types) ==
  \E ext_type \in external_types : Contains(spelling, ext_type)

\* s.split('<')[0] if '<' in s else s
before_angle(s) == IF Contains(s, s_lt) THEN Split(s, s_lt)[1] ELSE s

\* The table process_class builds from the keys of type_infos: the bare name
\* of each, template arguments cut, to the first qualified name that has it.
local_namespace_types(type_infos) ==
  LET simple(i) == before_angle(Last(Split(type_infos[i].qualified_name, s_colons)))
      names == {simple(i) : i \in 1..Len(type_infos)}
  IN  [n \in names |->
         type_infos[Min({i \in 1..Len(type_infos) : simple(i) = n})].qualified_name]

\* A plausible slip: the qualifier suffix is not put back.
correct_type_name_drops_suffix(type_name, simple_class_name, fully_qualified_name, table) ==
  IF type_name = << >> THEN << >>
  ELSE
    LET has_const == StartsWith(type_name, s_const)
        prefix == IF has_const THEN s_const ELSE << >>
        rest == IF has_const THEN Strip(SubSeq(type_name, Len(s_const) + 1, Len(type_name)))
                ELSE type_name
        suffix == IF EndsWith(rest, s_ampamp) THEN s_ampamp
                  ELSE IF EndsWith(rest, s_amp) THEN s_amp
                  ELSE IF EndsWith(rest, s_star) THEN s_star
                  ELSE << >>
        main_part == IF suffix = << >> THEN rest
                     ELSE Strip(SubSeq(rest, 1, Len(rest) - Len(suffix)))
    IN  IF Contains(main_part, s_colons) THEN type_name
        ELSE IF main_part = simple_class_name THEN prefix \o fully_qualified_name
        ELSE IF main_part \in DOMAIN table THEN prefix \o table[main_part]
        ELSE type_name

\* The nested function of process_class; the class's bare name, its qualified
\* name and the table are what it closes over.
correct_type_name(type_name, simple_class_name, fully_qualified_name, table) ==
  IF type_name = << >> THEN << >>
  ELSE
    LET has_const == StartsWith(type_name, s_const)
        prefix == IF has_const THEN s_const ELSE << >>
        rest == IF has_const THEN Strip(SubSeq(type_name, Len(s_const) + 1, Len(type_name)))
                ELSE type_name
        suffix == IF EndsWith(rest, s_ampamp) THEN s_ampamp
                  ELSE IF EndsWith(rest, s_amp) THEN s_amp
                  ELSE IF EndsWith(rest, s_star) THEN s_star
                  ELSE << >>
        main_part == IF suffix = << >> THEN rest
                     ELSE Strip(SubSeq(rest, 1, Len(rest) - Len(suffix)))
    IN  IF Contains(main_part, s_colons) THEN type_name
        ELSE IF main_part = simple_class_name THEN prefix \o fully_qualified_name \o suffix
        ELSE IF main_part \in DOMAIN table THEN prefix \o table[main_part] \o suffix
        ELSE type_name

\* One line of a registration: .property, .method, .constructor or .value.
Entry(op, name, ref, template_args, cast) ==
  [op |-> op, name |-> name, ref |-> ref, template_args |-> template_args, cast |-> cast]

\* A registration: the comment line, Registry_<fqn>() or Enum_<fqn>(), the entries.
Registration(head, comment, fqn, enum_type, entries) ==
  [head |-> head, comment |-> comment, fqn |-> fqn, enum_type |-> enum_type,
   entries |-> entries]

\* A plausible slip: the namespace's list is assigned, not appended to.
AppendRegistration_replaces(regs, namespace, registration) ==
  IF namespace \in DOMAIN regs
  THEN [regs EXCEPT ![namespace] = << registration >>]
  ELSE Put(regs, namespace, << registration >>)

\* self.namespace_registrations[namespace].append(registration)
AppendRegistration(regs, namespace, registration) ==
  IF namespace \in DOMAIN regs
  THEN [regs EXCEPT ![namespace] = Append(@, registration)]
  ELSE Put(regs, namespace, << registration >>)

\* A plausible slip: the members are taken whatever their access.
reflectable_members_any_access(t, cursor) ==
  SelectSeq(t[cursor].children, LAMBDA member : ~is_static_member(t, member))

\* The members process_class looks at: public where they stand and not static.
reflectable_members(t, cursor) ==
  SelectSeq(t[cursor].children,
    LAMBDA member :
      get_effective_access(t, member) = "PUBLIC" /\ ~is_static_member(t, member))

\* A plausible slip: the test for an earlier registration is left out.
already_registered_never(fully_qualified_name, registered) == FALSE

\* if fully_qualified_name in self.registered_types: return
already_registered(fully_qualified_name, registered) ==
  fully_qualified_name \in registered

\* A plausible slip: the name is recorded as registered before the return.
skip_without_members_registers(g, fully_qualified_name) ==
  [g EXCEPT
     !.skipped_types =
        Append(@, Skipped(fully_qualified_name, "no reflectable public members")),
     !.registered_types = @ \cup {fully_qualified_name}]

\* The return of process_class when no property, method or constructor is
\* left: the entry of skipped_types and nothing else.
skip_without_members(g, fully_qualified_name) ==
  [g EXCEPT
     !.skipped_types =
        Append(@, Skipped(fully_qualified_name, "no reflectable public members"))]

\* Phase 4 for a class or struct.  g holds the generator's fields.
process_class(t, cursor, g) ==
  LET class_name == type_name_of(t, cursor)
      fully_qualified_name == get_qualified_name(t, cursor)
      simple_class_name == before_angle(class_name)
      namespace == get_namespace_path(t, cursor)
      table == local_namespace_types(g.type_infos)
      members == reflectable_members(t, cursor)
      ext == g.external_types
      properties ==
        SelectSeq(members, LAMBDA m :
          /\ t[m].kind = "FIELD_DECL"
          /\ ~references_external(get_fully_qualified_type(t[m].type), ext))
      methods ==
        SelectSeq(members, LAMBDA m :
          /\ t[m].kind = "CXX_METHOD"
          /\ t[m].spelling # class_name
          /\ ~StartsWith(t[m].spelling, << "~" >>)
          /\ ~references_external(t[m].result_type, ext)
          /\ \A i \in 1..Len(t[m].arguments) : ~references_external(t[m].arguments[i], ext))
      constructors ==
        SelectSeq(members, LAMBDA m :
          /\ t[m].kind = "CONSTRUCTOR"
          /\ \A i \in 1..Len(t[m].arguments) : ~references_external(t[m].arguments[i], ext))
      correct(type_name) ==
        correct_type_name(type_name, simple_class_name, fully_qualified_name, table)
      corrected(types) == [i \in 1..Len(types) |-> correct(types[i])]
      property_entry(m) ==
        Entry("property", t[m].spelling,
              fully_qualified_name \o s_colons \o t[m].spelling, << >>, << >>)
      method_entry(m) ==
        Entry("method", t[m].spelling,
              fully_qualified_name \o s_colons \o t[m].spelling,
              << correct(t[m].result_type) >> \o corrected(t[m].arguments),
              << "(" >> \o correct(t[m].result_type) \o << " ", "(" >>
                \o fully_qualified_name \o << ":", ":", "*", ")", "(" >>
                \o Join(corrected(t[m].arguments), s_comma_sp) \o << ")" >>
                \o (IF t[m].is_const THEN << " ", "c", "o", "n", "s", "t" >> ELSE << >>)
                \o << ")" >>)
      constructor_entry(m) ==
        Entry("constructor", << >>, << >>, corrected(t[m].arguments), << >>)
      registration ==
        Registration("Registry_", simple_class_name, fully_qualified_name, << >>,
          [i \in 1..Len(properties) |-> property_entry(properties[i])]
            \o [i \in 1..Len(methods) |-> method_entry(methods[i])]
            \o [i \in 1..Len(constructors) |-> constructor_entry(constructors[i])])
  IN  IF class_name = << >> \/ Contains(class_name, s_unnamed) THEN g
      ELSE IF t[cursor].kind = "CLASS_TEMPLATE"
              \/ (is_template_class(t, cursor) /\ ~is_template_specialization(t, cursor))
      THEN g
      ELSE IF is_external_type(t, cursor, g.processed_files) THEN g
      ELSE IF already_registered(fully_qualified_name, g.registered_types) THEN g
      ELSE IF properties = << >> /\ methods = << >> /\ constructors = << >>
      THEN skip_without_members(g, fully_qualified_name)
      ELSE [g EXCEPT
              !.registered_types = @ \cup {fully_qualified_name},
              !.resolved_types = @ \cup {fully_qualified_name},
              !.namespace_registrations = AppendRegistration(@, namespace, registration)]

\* What a .value(...) line of process_enum refers to: both branches of the
\* is_enum_class test write the enum's qualified name before the enumerator.
enum_value_ref(t, cursor, value) ==
  IF t[cursor].is_scoped
  THEN get_qualified_name(t, cursor) \o s_colons \o value
  ELSE get_qualified_name(t, cursor) \o s_colons \o value

\* Phase 4 for an enum.
process_enum(t, cursor, g) ==
  LET enum_name == t[cursor].spelling
      fully_qualified_name == get_qualified_name(t, cursor)
      namespace == get_namespace_path(t, cursor)
      enum_type == IF t[cursor].enum_type # << >> THEN t[cursor].enum_type ELSE s_int
      constants == SelectSeq(t[cursor].children,
                     LAMBDA c : t[c].kind = "ENUM_CONSTANT_DECL")
      enum_values == [i \in 1..Len(constants) |-> t[constants[i]].spelling]
      registration ==
        Registration("Enum_", enum_name, fully_qualified_name, enum_type,
          [i \in 1..Len(enum_values) |->
             Entry("value", enum_values[i],
                   enum_value_ref(t, cursor, enum_values[i]), << >>, << >>)])
  IN  IF enum_name = << >> \/ Contains(enum_name, s_unnamed) THEN g
      ELSE IF is_external_type(t, cursor, g.processed_files)
      THEN [g EXCEPT !.external_types = @ \cup {enum_name}]
      ELSE IF already_registered(fully_qualified_name, g.registered_types) THEN g
      ELSE IF enum_values = << >>
      THEN [g EXCEPT !.registered_types = @ \cup {fully_qualified_name}]
      ELSE [g EXCEPT
              !.registered_types = @ \cup {fully_qualified_name},
              !.resolved_types = @ \cup {fully_qualified_name},
              !.namespace_registrations = AppendRegistration(@, namespace, registration)]

\* ------------------------------------------------------------- generate

Line(line, arg) == [line |-> line, arg |-> arg]

\* The registrations of one namespace, each a line of the body.
registration_lines(registrations) ==
  [i \in 1..Len(registrations) |-> Line("registration", registrations[i])]

\* The named namespaces in sorted order, each with its comment line first
\* when it holds a registration.
RECURSIVE namespace_blocks(_, _)
namespace_blocks(regs, namespaces) ==
  IF namespaces = << >> THEN << >>
  ELSE (IF namespaces[1] = << >> \/ regs[namespaces[1]] = << >> THEN << >>
        ELSE << Line("namespace_comment", namespaces[1]) >>
               \o registration_lines(regs[namespaces[1]]))
         \o namespace_blocks(regs, Tail(namespaces))

\* A plausible slip: the block is written whether or not it holds a registration.
registration_body_always_block(regs) ==
  << Line("registration_open", << >>) >>
    \o (IF << >> \in DOMAIN regs /\ regs[<< >>] # << >>
        THEN registration_lines(regs[<< >>]) ELSE << >>)
    \o namespace_blocks(regs, Sorted(DOMAIN regs))
    \o << Line("registration_close", << >>) >>

\* A plausible slip: the global namespace is written where the sort puts it
\* among the others, its registrations after theirs.
registration_body_global_last(regs) ==
  IF \E ns \in DOMAIN regs : regs[ns] # << >>
  THEN << Line("registration_open", << >>) >>
         \o namespace_blocks(regs, Sorted(DOMAIN regs))
         \o (IF << >> \in DOMAIN regs /\ regs[<< >>] # << >>
             THEN registration_lines(regs[<< >>]) ELSE << >>)
         \o << Line("registration_close", << >>) >>
  ELSE << Line("nothing_found", << >>) >>

\* The registration body: the block with the global namespace first and the
\* others after it, or the comment that nothing was found.
registration_body(regs) ==
  IF \E ns \in DOMAIN regs : regs[ns] # << >>
  THEN << Line("registration_open", << >>) >>
         \o (IF << >> \in DOMAIN regs /\ regs[<< >>] # << >>
             THEN registration_lines(regs[<< >>]) ELSE << >>)
         \o namespace_blocks(regs, Sorted(DOMAIN regs))
         \o << Line("registration_close", << >>) >>
  ELSE << Line("nothing_found", << >>) >>

\* What generate() writes, line by line.
generated_lines(g) ==
  LET regs == g.namespace_registrations
      headers == Sorted(g.processed_files)
      externals == Sorted(g.external_types)
  IN  << Line("include_rttm", << >>) >>
        \o [i \in 1..Len(headers) |-> Line("include", headers[i])]
        \o << Line("banner", << >>), Line("using_namespace", << >>) >>
        \o (IF g.external_types = {} THEN << >>
            ELSE << Line("externals_comment", << >>) >>
                   \o [i \in 1..Len(externals) |-> Line("external", externals[i])])
        \o (IF g.skipped_types = << >> THEN << >>
            ELSE << Line("skipped_comment", << >>) >>
                   \o [i \in 1..Len(g.skipped_types) |-> Line("skipped", g.skipped_types[i])])
        \o registration_body(regs)

\* ------------------------------------------------------------- state

VARIABLES
  \* main() and the process_header call it is in
  pc,                       \* where the run is: "main", "headers", a phase, "done"
  headers,                  \* the local of that name in main(): the headers to process
  mode,                     \* "list" (--headers-list) or "single" (input_file)
  headers_done,             \* the process_header calls that have returned
  header_file,              \* the argument of the current process_header call
  has_errors,               \* the local of that name in process_header
  idx,                      \* the position of process_filtered_types in type_infos
  success,                  \* the local of that name in main()
  exit_code,                \* what main() returned, -1 while it runs
  stderr,                   \* the messages printed to sys.stderr
  output,                   \* the lines of the output file, << >> until written
  scratch_files,            \* the files mkstemp made that still exist
  pch_file,                 \* the scratch file of the current process_header call
  \* the fields of the ReflectionGenerator instance
  namespace_registrations,
  processed_files,
  external_types,
  resolved_types,
  skipped_types,
  registered_types,
  type_infos,
  current_access_state,
  \* the access resolver on a generated declaration graph
  ast,                      \* the declaration graph
  access_result,            \* what the resolver answered for its cursors
  \* correct_type_name on a drawn spelling
  correct_call,             \* the spelling and what the function closes over
  correct_result            \* what it returned

main_vars ==
  << pc, headers, mode, headers_done, header_file, has_errors, idx, success, exit_code,
     stderr, output, scratch_files, pch_file >>

generator_vars ==
  << namespace_registrations, processed_files, external_types, resolved_types,
     skipped_types, registered_types, type_infos, current_access_state >>

access_vars == << ast, access_result >>

correct_vars == << correct_call, correct_result >>

vars == << main_vars, generator_vars, access_vars, correct_vars >>

\* ReflectionGenerator.__init__
InitGenerator ==
  /\ namespace_registrations = << >>
  /\ processed_files = {}
  /\ external_types = {}
  /\ resolved_types = {}
  /\ skipped_types = << >>
  /\ registered_types = {}
  /\ type_infos = << >>
  /\ current_access_state = << >>

InitMain(at) ==
  /\ pc = at
  /\ headers = << >>
  /\ mode = "list"
  /\ headers_done = 0
  /\ header_file = << >>
  /\ has_errors = FALSE
  /\ idx = 1
  /\ success = TRUE
  /\ exit_code = -1
  /\ stderr = << >>
  /\ output = << >>
  /\ scratch_files = {}
  /\ pch_file = None

NoAccessQuery ==
  /\ ast = << >>
  /\ access_result = [op |-> "none"]

NoCorrectCall ==
  /\ correct_call = << >>
  /\ correct_result = [returned |-> FALSE]

\* ------------------------------------------------------------- main() and process_header

\* The translation unit of the header being processed.
TU == parse(header_file).cursors

\* The generator's fields as the phases read and write them.
Generator ==
  [ namespace_registrations |-> namespace_registrations,
    processed_files |-> processed_files,
    external_types |-> external_types,
    resolved_types |-> resolved_types,
    skipped_types |-> skipped_types,
    registered_types |-> registered_types,
    type_infos |-> type_infos ]

Message(msg, header) == [msg |-> msg, header |-> header]

\* tempfile.mkstemp: a name no existing scratch file has.
mkstemp == Min((1..(Cardinality(scratch_files) + 1)) \ scratch_files)

\* The lists of headers a headers-list file can hold.
RECURSIVE ListsOfLength(_)
ListsOfLength(n) ==
  IF n = 0 THEN {<< >>}
  ELSE {Append(list, h) : list \in ListsOfLength(n - 1), h \in Headers}

HeaderLists == UNION {ListsOfLength(n) : n \in 0..MaxHeaders}

\* main() reads the file --headers-list names.
ReadHeadersList(list) ==
  /\ pc = "main"
  /\ pc' = "headers"
  /\ mode' = "list"
  /\ headers' = list
  /\ UNCHANGED << headers_done, header_file, has_errors, idx, success, exit_code,
                  stderr, output, scratch_files, pch_file >>
  /\ UNCHANGED << generator_vars, access_vars, correct_vars >>

\* main() cannot read it and returns 2.
ReadHeadersListFails ==
  /\ pc = "main"
  /\ pc' = "done"
  /\ mode' = "list"
  /\ stderr' = Append(stderr, Message("cannot read headers list", << >>))
  /\ exit_code' = 2
  /\ UNCHANGED << headers_done, header_file, has_errors, idx, success, output,
                  scratch_files, pch_file >>
  /\ UNCHANGED << headers, generator_vars, access_vars, correct_vars >>

\* main() was given one input_file.
SingleHeader(input_file) ==
  /\ pc = "main"
  /\ pc' = "headers"
  /\ mode' = "single"
  /\ headers' = << input_file >>
  /\ UNCHANGED << headers_done, header_file, has_errors, idx, success, exit_code,
                  stderr, output, scratch_files, pch_file >>
  /\ UNCHANGED << generator_vars, access_vars, correct_vars >>

\* Whether main() has a process_header call left to make.
MoreHeaders == headers_done < Len(headers)

\* process_header up to the phases: the scratch file, the parse, the
\* diagnostics, the header recorded as processed, type_infos and
\* current_access_state emptied.
ParseHeader(h) ==
  /\ pc = "headers"
  /\ MoreHeaders
  /\ h = headers[headers_done + 1]
  /\ ~parse(h).raises
  /\ pc' = "scan"
  /\ header_file' = h
  /\ pch_file' = mkstemp
  /\ scratch_files' = scratch_files \cup {mkstemp}
  /\ has_errors' = parse(h).has_errors
  /\ stderr' = IF parse(h).has_errors
               THEN Append(stderr, Message("errors while parsing", h))
               ELSE stderr
  /\ processed_files' = processed_files \cup {normpath(h)}
  /\ type_infos' = << >>
  /\ current_access_state' = << >>
  /\ UNCHANGED << mode, headers_done, idx, success, exit_code, output >>
  /\ UNCHANGED << namespace_registrations, external_types, resolved_types,
                  skipped_types, registered_types >>
  /\ UNCHANGED << headers, access_vars, correct_vars >>

\* A plausible slip: the scratch file is closed and never deleted.
unlink_never(files, file) == files

\* os.unlink(file) in the finally clause of process_header.
unlink(files, file) == files \ {file}

\* A plausible slip: the loop of main() is left at the first header that fails.
ParseHeaderRaises_aborts(h) ==
  /\ pc = "headers"
  /\ MoreHeaders
  /\ h = headers[headers_done + 1]
  /\ parse(h).raises
  /\ pc' = "done"
  /\ header_file' = h
  /\ stderr' = Append(stderr, Message("exception while parsing", h))
  /\ success' = FALSE
  /\ exit_code' = 1
  /\ headers_done' = headers_done + 1
  /\ UNCHANGED << mode, has_errors, idx, output, scratch_files, pch_file >>
  /\ UNCHANGED << headers, generator_vars, access_vars, correct_vars >>

\* process_header when the parse raises: the scratch file is made before
\* the parse, the except clause prints and returns False after the finally
\* clause has deleted the scratch file, and main() clears success and, in
\* the loop over a list, prints its warning and goes on.
ParseHeaderRaises(h) ==
  /\ pc = "headers"
  /\ MoreHeaders
  /\ h = headers[headers_done + 1]
  /\ parse(h).raises
  /\ header_file' = h
  /\ scratch_files' = unlink(scratch_files \cup {mkstemp}, mkstemp)
  /\ pch_file' = None
  /\ stderr' = Append(stderr, Message("exception while parsing", h))
                 \o (IF mode = "list"
                     THEN << Message("error while processing", h) >> ELSE << >>)
  /\ success' = FALSE
  /\ headers_done' = headers_done + 1
  /\ UNCHANGED << pc, mode, has_errors, idx, exit_code, output >>
  /\ UNCHANGED << headers, generator_vars, access_vars, correct_vars >>

\* Phase 1.
ScanAndRecordAccess ==
  /\ pc = "scan"
  /\ pc' = "collect"
  /\ current_access_state' = scan_and_record_access(TU, 1, current_access_state)
  /\ UNCHANGED << mode, headers_done, header_file, has_errors, idx, success,
                  exit_code, stderr, output, scratch_files, pch_file >>
  /\ UNCHANGED << namespace_registrations, processed_files, external_types,
                  resolved_types, skipped_types, registered_types, type_infos >>
  /\ UNCHANGED << headers, access_vars, correct_vars >>

\* Phase 2.
CollectAllTypes ==
  /\ pc = "collect"
  /\ pc' = "filter"
  /\ LET st == collect_all_types(TU, 1, processed_files, Generator)
     IN  /\ type_infos' = st.type_infos
         /\ external_types' = st.external_types
         /\ skipped_types' = st.skipped_types
  /\ UNCHANGED << mode, headers_done, header_file, has_errors, idx, success,
                  exit_code, stderr, output, scratch_files, pch_file >>
  /\ UNCHANGED << namespace_registrations, processed_files, resolved_types,
                  registered_types, current_access_state >>
  /\ UNCHANGED << headers, access_vars, correct_vars >>

\* Phase 3.
FilterPublicTypes ==
  /\ pc = "filter"
  /\ pc' = "process"
  /\ idx' = 1
  /\ LET st == filter_public_types(Generator)
     IN  /\ type_infos' = st.type_infos
         /\ skipped_types' = st.skipped_types
  /\ UNCHANGED << mode, headers_done, header_file, has_errors, success,
                  exit_code, stderr, output, scratch_files, pch_file >>
  /\ UNCHANGED << namespace_registrations, processed_files, external_types,
                  resolved_types, registered_types, current_access_state >>
  /\ UNCHANGED << headers, access_vars, correct_vars >>

\* The generator's fields become those of g; type_infos and processed_files stay.
StoreGenerator(g) ==
  /\ namespace_registrations' = g.namespace_registrations
  /\ external_types' = g.external_types
  /\ resolved_types' = g.resolved_types
  /\ skipped_types' = g.skipped_types
  /\ registered_types' = g.registered_types
  /\ UNCHANGED << processed_files, type_infos, current_access_state >>

\* Phase 4: the next entry of type_infos is a class or a struct.
ProcessClass ==
  /\ pc = "process"
  /\ idx <= Len(type_infos)
  /\ TU[type_infos[idx].cursor].kind \in AggregateKinds
  /\ idx' = idx + 1
  /\ StoreGenerator(process_class(TU, type_infos[idx].cursor, Generator))
  /\ UNCHANGED << pc, mode, headers_done, header_file, has_errors, success,
                  exit_code, stderr, output, scratch_files, pch_file >>
  /\ UNCHANGED << headers, access_vars, correct_vars >>

\* Phase 4: the next entry of type_infos is an enum.
ProcessEnum ==
  /\ pc = "process"
  /\ idx <= Len(type_infos)
  /\ TU[type_infos[idx].cursor].kind = "ENUM_DECL"
  /\ idx' = idx + 1
  /\ StoreGenerator(process_enum(TU, type_infos[idx].cursor, Generator))
  /\ UNCHANGED << pc, mode, headers_done, header_file, has_errors, success,
                  exit_code, stderr, output, scratch_files, pch_file >>
  /\ UNCHANGED << headers, access_vars, correct_vars >>

\* process_header returns True after the finally clause has deleted the
\* scratch file; in single mode main() stores the result in success.
ReturnFromHeader ==
  /\ pc = "process"
  /\ idx > Len(type_infos)
  /\ pc' = "headers"
  /\ scratch_files' = unlink(scratch_files, pch_file)
  /\ pch_file' = None
  /\ headers_done' = headers_done + 1
  /\ success' = IF mode = "single" THEN TRUE ELSE success
  /\ UNCHANGED << mode, header_file, has_errors, idx, exit_code, stderr, output >>
  /\ UNCHANGED << headers, generator_vars, access_vars, correct_vars >>

\* Whether main() has made its process_header calls: the one of single
\* mode, or those of a list of any length up to the bound.
HeadersDone == headers_done = Len(headers)

\* generate() writes the output file and main() returns 0 or 1.
Generate ==
  /\ pc = "headers"
  /\ HeadersDone
  /\ pc' = "done"
  /\ output' = generated_lines(Generator)
  /\ exit_code' = IF success THEN 0 ELSE 1
  /\ UNCHANGED << mode, headers_done, header_file, has_errors, idx, success,
                  stderr, scratch_files, pch_file >>
  /\ UNCHANGED << headers, generator_vars, access_vars, correct_vars >>

\* generate() cannot open or write the output file and main() returns 2.
GenerateFails ==
  /\ pc = "headers"
  /\ HeadersDone
  /\ pc' = "done"
  /\ stderr' = Append(stderr, Message("cannot write output", << >>))
  /\ exit_code' = 2
  /\ UNCHANGED << mode, headers_done, header_file, has_errors, idx, success,
                  output, scratch_files, pch_file >>
  /\ UNCHANGED << headers, generator_vars, access_vars, correct_vars >>

Init ==
  /\ InitMain("main")
  /\ InitGenerator
  /\ NoAccessQuery
  /\ NoCorrectCall

Next ==
  \/ \E list \in HeaderLists : ReadHeadersList(list)
  \/ ReadHeadersListFails
  \/ \E input_file \in Headers : SingleHeader(input_file)
  \/ \E h \in Headers : ParseHeader(h)
  \/ \E h \in Headers : ParseHeaderRaises(h)
  \/ ScanAndRecordAccess
  \/ CollectAllTypes
  \/ FilterPublicTypes
  \/ ProcessClass
  \/ ProcessEnum
  \/ ReturnFromHeader
  \/ Generate
  \/ GenerateFails

Spec == Init /\ [][Next]_vars

\* ------------------------------------------------------------- the access resolver on generated graphs

ScopeKinds == {"TRANSLATION_UNIT", "NAMESPACE", "CLASS_DECL", "STRUCT_DECL", "CLASS_TEMPLATE"}

\* The translation unit cursor and, from it down, each last child.
RECURSIVE RightPath(_, _)
RightPath(t, n) ==
  {n} \cup (IF t[n].children = << >> THEN {} ELSE RightPath(t, Last(t[n].children)))

\* t with one more cursor, listed last among the children of lex.
WithCursor(t, lex, c) ==
  [Append(t, c) EXCEPT ![lex].children = Append(@, Len(t) + 1)]

InitAccess ==
  /\ ast = << Cursor("TRANSLATION_UNIT", << >>, NoFile, None, << >>) >>
  /\ access_result = [op |-> "none"]
  /\ InitMain("off")
  /\ InitGenerator
  /\ NoCorrectCall

\* The parser meets a declaration inside the scope p.
AddDecl(p, kind) ==
  /\ access_result.op = "none"
  /\ Len(ast) <= MaxAstNodes
  /\ p \in RightPath(ast, 1)
  /\ ast[p].kind \in ScopeKinds
  /\ kind = "NAMESPACE" => ast[p].kind \in {"TRANSLATION_UNIT", "NAMESPACE"}
  /\ kind = "FIELD_DECL" => ast[p].kind \in AggregateKinds \cup {"CLASS_TEMPLATE"}
  /\ ast' = WithCursor(ast, p, Cursor(kind, << >>, NoFile, p, << >>))
  /\ UNCHANGED << access_result, main_vars, generator_vars, correct_vars >>

\* The parser meets "public:", "protected:" or "private:" inside p.
AddAccessSpec(p, a) ==
  /\ access_result.op = "none"
  /\ Len(ast) <= MaxAstNodes
  /\ p \in RightPath(ast, 1)
  /\ ast[p].kind \in AggregateKinds \cup {"CLASS_TEMPLATE"}
  /\ ast' = WithCursor(ast, p,
               [Cursor("CXX_ACCESS_SPEC_DECL", << >>, NoFile, p, << >>)
                  EXCEPT !.access_specifier = a])
  /\ UNCHANGED << access_result, main_vars, generator_vars, correct_vars >>

\* The parser meets, in the namespace scope p, the out-of-line definition of
\* a type first declared inside the aggregate sem.
AddOutOfLine(p, sem, kind) ==
  /\ access_result.op = "none"
  /\ Len(ast) <= MaxAstNodes
  /\ p \in RightPath(ast, 1)
  /\ ast[p].kind \in {"TRANSLATION_UNIT", "NAMESPACE"}
  /\ sem \in 1..Len(ast)
  /\ ast[sem].kind \in AggregateKinds
  /\ ast' = WithCursor(ast, p, Cursor(kind, << >>, NoFile, sem, << >>))
  /\ UNCHANGED << access_result, main_vars, generator_vars, correct_vars >>

\* The cursors get_effective_access is called on: a type declaration
\* (collect_all_types, is_truly_public) or a child of an aggregate (process_class).
AccessCallSites(t) ==
  {c \in 2..Len(t) :
     \/ t[c].kind \in TypeKinds
     \/ \E p \in 1..Len(t) :
          /\ t[p].kind \in AggregateKinds
          /\ \E i \in 1..Len(t[p].children) : t[p].children[i] = c}

\* The cursors is_truly_public is called on: the type declarations (collect_all_types).
TrulyPublicCallSites(t) == {c \in 2..Len(t) : t[c].kind \in TypeKinds}

\* One pass over the graph asks the resolver about every cursor it is called on.
ResolveAccess ==
  /\ access_result.op = "none"
  /\ Len(ast) > 1
  /\ access_result' =
       [ op |-> "resolved",
         access |-> [c \in AccessCallSites(ast) |-> get_effective_access(ast, c)],
         truly_public |-> [c \in TrulyPublicCallSites(ast) |-> is_truly_public(ast, c)] ]
  /\ UNCHANGED << ast, main_vars, generator_vars, correct_vars >>

AstKinds == {"NAMESPACE", "CLASS_DECL", "STRUCT_DECL", "ENUM_DECL", "CLASS_TEMPLATE", "FIELD_DECL"}

NextAccess ==
  \/ \E p \in 1..Len(ast), kind \in AstKinds : AddDecl(p, kind)
  \/ \E p \in 1..Len(ast), a \in AccessValues : AddAccessSpec(p, a)
  \/ \E p \in 1..Len(ast), sem \in 1..Len(ast), kind \in AggregateKinds :
        AddOutOfLine(p, sem, kind)
  \/ ResolveAccess

SpecAccess == InitAccess /\ [][NextAccess]_vars

\* ------------------------------------------------------------- correct_type_name on drawn spellings

\* n times the pointer declarator.
Stars(n) == [i \in 1..n |-> "*"]

\* The declarators a spelling ends with, with and without the space clang
\* writes before them.
Declarators ==
  {<< >>, s_amp, s_ampamp} \cup {Stars(n) : n \in 1..MaxPointerDepth}

\* The spellings clang gives the types of parameters and results: an optional
\* const, a type name, an optional declarator.  None starts or ends with a blank.
Spellings ==
  {(IF c THEN s_const ELSE << >>) \o core \o (IF d # << >> /\ blank THEN << " " >> ELSE << >>) \o d :
     c \in BOOLEAN,
     core \in {<<"F", "o", "o">>, <<"B", "a", "r">>, <<"B", "a", "z">>, s_int, <<"N", "S", ":", ":", "F", "o", "o">>, <<"s", "t", "d", ":", ":", "v", "e", "c", "t", "o", "r", "<", "i", "n", "t", ">">>},
     blank \in BOOLEAN,
     d \in Declarators}
  \cup {<< >>}

\* The classes process_class is in: the bare name and the qualified name.
ClassContexts ==
  { [simple_class_name |-> <<"F", "o", "o">>, fully_qualified_name |-> <<"N", "S", ":", ":", "F", "o", "o">>],
    [simple_class_name |-> <<"B", "a", "r">>, fully_qualified_name |-> <<"M", ":", ":", "B", "a", "r">>],
    [simple_class_name |-> <<"B", "o", "x">>, fully_qualified_name |-> <<"B", "o", "x", "<", "i", "n", "t", ">">>] }

\* The tables local_namespace_types builds from the types of a header.
Tables ==
  { << >>,
    local_namespace_types(<< [name |-> <<"B", "a", "r">>, qualified_name |-> <<"N", "S", ":", ":", "B", "a", "r">>] >>),
    local_namespace_types(<< [name |-> <<"B", "a", "z">>, qualified_name |-> <<"N", "S", ":", ":", "B", "a", "z">>],
                             [name |-> <<"F", "o", "o">>, qualified_name |-> <<"N", "S", ":", ":", "F", "o", "o">>],
                             [name |-> <<"B", "a", "z">>, qualified_name |-> <<"M", ":", ":", "B", "a", "z">>] >>) }

InitCorrect ==
  /\ \E s \in Spellings, c \in ClassContexts, table \in Tables :
       correct_call = [type_name |-> s,
                       simple_class_name |-> c.simple_class_name,
                       fully_qualified_name |-> c.fully_qualified_name,
                       table |-> table]
  /\ correct_result = [returned |-> FALSE]
  /\ InitMain("off")
  /\ InitGenerator
  /\ NoAccessQuery

CorrectTypeName ==
  /\ correct_call # << >>
  /\ ~correct_result.returned
  /\ correct_result' =
       [returned |-> TRUE,
        value |-> correct_type_name(correct_call.type_name,
                                    correct_call.simple_class_name,
                                    correct_call.fully_qualified_name,
                                    correct_call.table)]
  /\ UNCHANGED << correct_call, main_vars, generator_vars, access_vars >>

NextCorrect == CorrectTypeName

SpecCorrect == InitCorrect /\ [][NextCorrect]_vars

\* ------------------------------------------------------------- properties of the access resolver

IsMarker(t, c) == t[c].kind = "CXX_ACCESS_SPEC_DECL"

\* The positions of c among the direct children of p.
PositionsIn(t, p, c) == {i \in 1..Len(t[p].children) : t[p].children[i] = c}

\* The access the last marker before position i of p sets, the default of p when there is none.
AccessBefore(t, p, i) ==
  LET marks == {j \in 1..(i - 1) : IsMarker(t, t[p].children[j])}
  IN  IF marks = {} THEN default_access(t[p].kind)
      ELSE t[t[p].children[Max(marks)]].access_specifier

\* The access in force where c is declared.
AccessInForce(t, c) ==
  LET p == t[c].semantic_parent
  IN  IF p = None \/ t[p].kind \notin AggregateKinds THEN "PUBLIC"
      ELSE IF PositionsIn(t, p, c) = {} THEN default_access(t[p].kind)
      ELSE AccessBefore(t, p, Min(PositionsIn(t, p, c)))

\* c and its semantic ancestors below the translation unit.
RECURSIVE Chain(_, _)
Chain(t, c) ==
  IF c = None \/ t[c].kind = "TRANSLATION_UNIT" THEN {}
  ELSE {c} \cup Chain(t, t[c].semantic_parent)

Resolved == access_result.op = "resolved"

\* C1: a type declaration nested at any depth inside an aggregate whose
\* effective access is not public is not truly public, whatever its own
\* access; and a type declaration is truly public only when it and every
\* class, struct or enum ancestor of it has public effective access.
C1_TrulyPublicNeedsPublicChain ==
  Resolved =>
    \A d \in DOMAIN access_result.truly_public :
      /\ \A a \in Chain(ast, d) \ {d} :
           (ast[a].kind \in AggregateKinds /\ AccessInForce(ast, a) # "PUBLIC")
             => ~access_result.truly_public[d]
      /\ access_result.truly_public[d] =>
           \A a \in Chain(ast, d) :
             ast[a].kind \in TypeKinds => AccessInForce(ast, a) = "PUBLIC"

\* C1 witness: a type whose own access and whose parent's access are public,
\* two levels inside a private aggregate, answered not truly public.
C1_Witness ==
  /\ Resolved
  /\ \E d \in DOMAIN access_result.truly_public :
       LET p == ast[d].semantic_parent
       IN  /\ access_result.truly_public[d] = FALSE
           /\ access_result.access[d] = "PUBLIC"
           /\ p # None /\ ast[p].kind \in AggregateKinds
           /\ access_result.access[p] = "PUBLIC"
           /\ ast[p].semantic_parent # None
           /\ ast[ast[p].semantic_parent].kind \in AggregateKinds
           /\ access_result.access[ast[p].semantic_parent] = "PRIVATE"

\* C2: for every declaration the resolver is asked about (an access-specifier
\* marker sets the access and is not itself such a declaration), the answer is
\* public under a parent that is no aggregate; under an aggregate it is the
\* access in force at the declaration's position, scanning the parent's
\* children in order from private (class) or public (struct) and updating at
\* every marker; and it is the parent's default when the parent does not list it.
C2_EffectiveAccess ==
  Resolved =>
    \A c \in DOMAIN access_result.access :
      ~IsMarker(ast, c) => access_result.access[c] = AccessInForce(ast, c)

\* C2 witness: under one class, a member after "protected:" answered
\* protected, and an out-of-line definition the class does not list answered private.
C2_Witness ==
  /\ Resolved
  /\ \E c, d \in DOMAIN access_result.access :
       LET p == ast[c].semantic_parent
       IN  /\ ~IsMarker(ast, c) /\ ~IsMarker(ast, d)
           /\ p # None /\ ast[p].kind = "CLASS_DECL"
           /\ PositionsIn(ast, p, c) # {}
           /\ access_result.access[c] = "PROTECTED"
           /\ ast[d].semantic_parent = p
           /\ PositionsIn(ast, p, d) = {}
           /\ access_result.access[d] = "PRIVATE"

\* ------------------------------------------------------------- properties of correct_type_name

\* The spelling without its first n characters, blanks at both ends dropped.
WithoutFirst(s, n) == Strip(SubSeq(s, n + 1, Len(s)))

\* The spelling without its last n characters, blanks at both ends dropped.
WithoutLast(s, n) == Strip(SubSeq(s, 1, Len(s) - n))

\* The const a spelling starts with, if any.
ConstPrefix(s) == IF StartsWith(s, s_const) THEN s_const ELSE << >>

\* The one declarator taken off the end of a spelling: the rvalue reference
\* before the reference, the reference before the pointer.
LastDeclarator(s) ==
  CHOOSE d \in {<< >>, s_amp, s_ampamp, s_star} :
    /\ EndsWith(s, d)
    /\ \A e \in {s_amp, s_ampamp, s_star} : EndsWith(s, e) => Len(e) <= Len(d)

\* What is left between the const and the declarator.
CoreOf(s) ==
  LET body == IF ConstPrefix(s) = << >> THEN s ELSE WithoutFirst(s, Len(s_const))
  IN  IF LastDeclarator(body) = << >> THEN body
      ELSE WithoutLast(body, Len(LastDeclarator(body)))

DeclaratorOf(s) ==
  LastDeclarator(IF ConstPrefix(s) = << >> THEN s ELSE WithoutFirst(s, Len(s_const)))

\* C4: for every spelling, with the const taken as prefix and the last
\* declarator as suffix, the corrected name is the spelling itself when the
\* core holds "::", prefix + the class's qualified name + suffix when the
\* core is the class's bare name, else prefix + the table's entry + suffix
\* when the core is a key of the table, else the spelling itself; "const
\* Foo&" in Foo of NS gives "const NS::Foo&", "int" gives "int" and
\* "std::vector<int>" gives "std::vector<int>".
C4_CorrectTypeName ==
  correct_result.returned =>
    LET s == correct_call.type_name
        r == correct_result.value
        prefix == ConstPrefix(s)
        suffix == DeclaratorOf(s)
        core == CoreOf(s)
    IN  /\ Contains(core, s_colons) => r = s
        /\ ~Contains(core, s_colons) /\ core = correct_call.simple_class_name
             => r = prefix \o correct_call.fully_qualified_name \o suffix
        /\ ~Contains(core, s_colons) /\ core # correct_call.simple_class_name
             /\ core \in DOMAIN correct_call.table
             => r = prefix \o correct_call.table[core] \o suffix
        /\ ~Contains(core, s_colons) /\ core # correct_call.simple_class_name
             /\ core \notin DOMAIN correct_call.table
             => r = s
        /\ s = <<"c", "o", "n", "s", "t", " ", "F", "o", "o", "&">> /\ correct_call.simple_class_name = <<"F", "o", "o">>
             /\ correct_call.fully_qualified_name = <<"N", "S", ":", ":", "F", "o", "o">>
             => r = <<"c", "o", "n", "s", "t", " ", "N", "S", ":", ":", "F", "o", "o", "&">>
        /\ s = s_int => r = s_int
        /\ s = <<"s", "t", "d", ":", ":", "v", "e", "c", "t", "o", "r", "<", "i", "n", "t", ">">> => r = <<"s", "t", "d", ":", ":", "v", "e", "c", "t", "o", "r", "<", "i", "n", "t", ">">>

\* "const Foo&" has been corrected inside NS::Foo.
C4_Witness ==
  /\ correct_result.returned
  /\ correct_call.type_name = <<"c", "o", "n", "s", "t", " ", "F", "o", "o", "&">>
  /\ correct_call.simple_class_name = <<"F", "o", "o">>
  /\ correct_call.fully_qualified_name = <<"N", "S", ":", ":", "F", "o", "o">>
  /\ correct_result.value = <<"c", "o", "n", "s", "t", " ", "N", "S", ":", ":", "F", "o", "o", "&">>

\* ------------------------------------------------------------- properties of the pipeline

\* Where the fragments are: the namespace and the position in its list.
FragmentPositions(regs) ==
  UNION {{<< ns, i >> : i \in 1..Len(regs[ns])} : ns \in DOMAIN regs}

FragmentAt(regs, p) == regs[p[1]][p[2]]

\* The fragments registered under one qualified name.
FragmentsNamed(regs, fqn) ==
  {p \in FragmentPositions(regs) : FragmentAt(regs, p).fqn = fqn}

\* The fragments regs2 holds beyond those of regs.
NewFragments(regs, regs2) ==
  {p \in FragmentPositions(regs2) : p \notin FragmentPositions(regs)}

\* process_filtered_types handles the entry at idx in this step.
ProcessStep == pc = "process" /\ idx <= Len(type_infos) /\ idx' = idx + 1

\* The cursor process_filtered_types handled last.
Processed == type_infos[idx - 1].cursor

JustProcessed == pc = "process" /\ idx > 1

\* C3: whatever headers one generator is given, in whatever order and
\* however often, no qualified name has two fragments over all namespaces;
\* and processing a class, struct or enum whose qualified name is already
\* registered adds no fragment and leaves registered_types and
\* resolved_types as they are.
C3_RegisteredOnce ==
  /\ [](\A p, q \in FragmentPositions(namespace_registrations) :
          FragmentAt(namespace_registrations, p).fqn
            = FragmentAt(namespace_registrations, q).fqn => p = q)
  /\ [][(ProcessStep /\ type_infos[idx].qualified_name \in registered_types)
          => UNCHANGED << namespace_registrations, registered_types, resolved_types >>]_vars

\* C3 witness: a.h has been given twice, under one spelling of its path or
\* two, the struct P of its second pass has just been met, and P has one fragment.
C3_Witness ==
  /\ JustProcessed
  /\ headers_done = 1
  /\ stderr = << >>
  /\ processed_files = {p_a}
  /\ type_infos[idx - 1].qualified_name = <<"P">>
  /\ <<"P">> \in registered_types
  /\ Cardinality(FragmentsNamed(namespace_registrations, <<"P">>)) = 1

\* Whether the entry e of a fragment binds the member m.
Binds(t, e, m) ==
  \/ e.op = "property" /\ t[m].kind = "FIELD_DECL" /\ e.name = t[m].spelling
  \/ e.op = "method" /\ t[m].kind = "CXX_METHOD" /\ e.name = t[m].spelling
  \/ e.op = "constructor" /\ t[m].kind = "CONSTRUCTOR"
       /\ Len(e.template_args) = Len(t[m].arguments)

\* An aggregate with no access-specifier and one field, nothing else.
OneFieldOnly(t, c) ==
  /\ Len(t[c].children) = 1
  /\ t[t[c].children[1]].kind = "FIELD_DECL"
  /\ ~t[t[c].children[1]].is_static

GenericTemplate(t, c) ==
  \/ t[c].kind = "CLASS_TEMPLATE"
  \/ /\ t[c].kind \in AggregateKinds
     /\ Contains(t[c].spelling, s_lt) /\ Contains(t[c].spelling, s_gt)
     /\ \E i \in 1..Len(t[c].children) :
          t[t[c].children[i]].kind = "TEMPLATE_TYPE_PARAMETER"

\* How often x occurs in the sequence s.
Occurrences(s, x) == Cardinality({i \in 1..Len(s) : s[i] = x})

\* C6: once the first header of a run has been collected, every generic
\* template class it declares in an input file has no fragment and exactly
\* one entry of skipped_types, tagged as a generic template.
C6_GenericTemplateSkipped ==
  (headers_done = 0 /\ pc \in {"filter", "process"}) =>
    \A c \in 1..Len(TU) :
      (GenericTemplate(TU, c) /\ TU[c].file # NoFile
         /\ normpath(TU[c].file) \in processed_files)
        => /\ FragmentsNamed(namespace_registrations, get_qualified_name(TU, c)) = {}
           /\ Occurrences(skipped_types, Skipped(TU[c].spelling, "generic template")) = 1

\* The enumerators of an enum, in declaration order.
Enumerators(t, c) ==
  SelectSeq(t[c].children, LAMBDA k : t[k].kind = "ENUM_CONSTANT_DECL")

\* C7: once a retained named enum with enumerators has been processed, it
\* has exactly one fragment, holding one value entry per enumerator in
\* declaration order, each referring to <qualified name of the enum>::<enumerator>,
\* for a scoped enum and an unscoped one alike.
C7_EnumFragment ==
  (JustProcessed /\ TU[Processed].kind = "ENUM_DECL"
     /\ TU[Processed].spelling # << >> /\ Enumerators(TU, Processed) # << >>)
    => LET fqn == type_infos[idx - 1].qualified_name
           values == Enumerators(TU, Processed)
       IN  /\ Cardinality(FragmentsNamed(namespace_registrations, fqn)) = 1
           /\ \A p \in FragmentsNamed(namespace_registrations, fqn) :
                LET entries == FragmentAt(namespace_registrations, p).entries
                IN  /\ Len(entries) = Len(values)
                    /\ \A i \in 1..Len(values) :
                         /\ entries[i].op = "value"
                         /\ entries[i].name = TU[values[i]].spelling
                         /\ entries[i].ref = fqn \o s_colons \o TU[values[i]].spelling

\* generate() has written the output file.
Written == pc = "done" /\ output # << >>

\* The positions of the lines of one kind in the output.
LinesOf(kind) == {i \in 1..Len(output) : output[i].line = kind}

NoFragment == FragmentPositions(namespace_registrations) = {}

\* C8: when no namespace holds a fragment, the output generate() writes has
\* no registration block, has the comment that nothing was found, and has
\* one inclusion line for every processed input file.
C8_NothingFound ==
  (Written /\ NoFragment) =>
    /\ LinesOf("registration_open") = {}
    /\ LinesOf("registration") = {}
    /\ LinesOf("namespace_comment") = {}
    /\ LinesOf("registration_close") = {}
    /\ Cardinality(LinesOf("nothing_found")) = 1
    /\ \A f \in processed_files :
         Cardinality({i \in LinesOf("include") : output[i].arg = f}) = 1
    /\ \A i \in LinesOf("include") : output[i].arg \in processed_files

\* C8 witness: fwd.h, which declares a struct and an enum without defining
\* them, has been processed and the output written with nothing to register.
C8_Witness ==
  /\ Written
  /\ NoFragment
  /\ processed_files = {p_fwd}
  /\ LinesOf("nothing_found") # {}
  /\ \E i \in LinesOf("include") : output[i].arg = p_fwd

\* Where the fragment at p of the generator is in the output.
OutputPositions(p) ==
  {i \in LinesOf("registration") :
     output[i].arg = FragmentAt(namespace_registrations, p)}

\* The comment lines of one namespace in the output.
CommentsOf(ns) == {i \in LinesOf("namespace_comment") : output[i].arg = ns}

\* C9: in the registration body every fragment is written once; the
\* fragments of the global namespace come before those of every named one;
\* the named namespaces come in sorted order, each that holds a fragment
\* with exactly one comment line, before its fragments and after those of
\* the namespaces before it; and the fragments of one namespace come in the
\* order they were discovered.
C9_NamespaceOrder ==
  Written =>
    LET regs == namespace_registrations
        all == FragmentPositions(regs)
        at(p) == CHOOSE i \in OutputPositions(p) : TRUE
    IN  /\ \A p \in all : Cardinality(OutputPositions(p)) = 1
        /\ Cardinality(LinesOf("registration")) = Cardinality(all)
        /\ \A p, q \in all :
             /\ (p[1] = << >> /\ q[1] # << >>) => at(p) < at(q)
             /\ (p[1] # << >> /\ q[1] # << >> /\ StrLess(p[1], q[1])) => at(p) < at(q)
             /\ (p[1] = q[1] /\ p[2] < q[2]) => at(p) < at(q)
        /\ \A ns \in DOMAIN regs :
             (ns # << >> /\ regs[ns] # << >>) =>
               /\ Cardinality(CommentsOf(ns)) = 1
               /\ \A i \in CommentsOf(ns) : \A p \in all :
                    /\ p[1] = ns => i < at(p)
                    /\ (p[1] = << >> \/ StrLess(p[1], ns)) => at(p) < i
        /\ \A i \in LinesOf("namespace_comment") :
             output[i].arg \in DOMAIN regs /\ output[i].arg # << >>

\* C9 witness: ns.h has been processed, whose namespace NS is declared
\* before its namespace M and after a global struct; the output has the
\* global fragment, then M with its comment, then NS with its three fragments.
C9_Witness ==
  /\ Written
  /\ processed_files = {p_ns}
  /\ << >> \in DOMAIN namespace_registrations
  /\ <<"M">> \in DOMAIN namespace_registrations
  /\ <<"N", "S">> \in DOMAIN namespace_registrations
  /\ Len(namespace_registrations[<<"N", "S">>]) = 3
  /\ \E i \in CommentsOf(<<"M">>), j \in CommentsOf(<<"N", "S">>) : i < j

\* The parser reported error-severity diagnostics for a header of this run.
ParseDiagnostics ==
  \E i \in 1..Len(stderr) : stderr[i].msg = "errors while parsing"

\* A header of this run could not be processed at all.
HeaderFailed ==
  \E i \in 1..Len(stderr) : stderr[i].msg = "exception while parsing"

\* The headers list could not be read or the output could not be written.
Unrecoverable ==
  \E i \in 1..Len(stderr) :
    stderr[i].msg \in {"cannot read headers list", "cannot write output"}

\* C10: main() returns 0 after a complete extraction, a code of its own
\* that is not 0 and lies below the fatal one after an extraction that was
\* partial because the parser reported errors for a header, and the fatal
\* code 2 when the headers list cannot be read or the output cannot be written.
C10_ExitCodes ==
  pc = "done" =>
    /\ (~Unrecoverable /\ ~ParseDiagnostics /\ ~HeaderFailed) => exit_code = 0
    /\ (~Unrecoverable /\ ParseDiagnostics) => (exit_code > 0 /\ exit_code < 2)
    /\ Unrecoverable => exit_code = 2

\* ------------------------------------------------------------- a whole run, as one function

\* Phase 4 from the entry at i on.
RECURSIVE process_filtered_types(_, _, _)
process_filtered_types(t, i, g) ==
  IF i > Len(g.type_infos) THEN g
  ELSE process_filtered_types(t, i + 1,
         IF t[g.type_infos[i].cursor].kind \in AggregateKinds
         THEN process_class(t, g.type_infos[i].cursor, g)
         ELSE process_enum(t, g.type_infos[i].cursor, g))

\* What one process_header call makes of the generator's fields.
process_header(g, h) ==
  IF parse(h).raises THEN g
  ELSE LET t == parse(h).cursors
           started == [g EXCEPT !.processed_files = @ \cup {normpath(h)},
                                !.type_infos = << >>]
           collected == collect_all_types(t, 1, started.processed_files, started)
       IN  process_filtered_types(t, 1, filter_public_types(collected))

\* The generator's fields at construction.
NewGenerator ==
  [ namespace_registrations |-> << >>,
    processed_files |-> {},
    external_types |-> {},
    resolved_types |-> {},
    skipped_types |-> << >>,
    registered_types |-> {},
    type_infos |-> << >> ]

\* The loop of main() over a list of headers, from a new generator.
RECURSIVE RunHeaders(_)
RunHeaders(list) ==
  IF list = << >> THEN NewGenerator
  ELSE process_header(RunHeaders(SubSeq(list, 1, Len(list) - 1)), list[Len(list)])

\* The final membership: the qualified names that have a fragment, each with
\* the members its fragment binds.
Membership(regs) ==
  {<< FragmentAt(regs, p).fqn,
      {<< FragmentAt(regs, p).entries[i].op, FragmentAt(regs, p).entries[i].name >> :
         i \in 1..Len(FragmentAt(regs, p).entries)} >> :
     p \in FragmentPositions(regs)}

\* The orders the headers of this run can be given in.
Orders ==
  {[i \in 1..Len(headers) |-> headers[f[i]]] : f \in Permutations(1..Len(headers))}

\* Every process_header call of this run has returned.
AllHeadersDone == pc \in {"headers", "done"} /\ headers_done = Len(headers)

\* C11: when the headers of a run have been processed, the qualified names
\* that have a fragment and the members bound in each fragment are those the
\* same headers give in every other order, one header including another or not.
C11_OrderIndependent ==
  AllHeadersDone =>
    \A order \in Orders :
      Membership(RunHeaders(order).namespace_registrations)
        = Membership(namespace_registrations)

\* The cursors of the translation unit t that collect_all_types meets in
\* the same loop as the declaration an entry was made for, under the
\* entry's qualified name: the declarations of one type in one scope of one file.
Redeclarations(t, info) ==
  {c \in 1..Len(t) :
     /\ t[c].kind \in TypeKinds
     /\ t[c].semantic_parent = t[info.cursor].semantic_parent
     /\ t[c].file = t[info.cursor].file
     /\ type_name_of(t, c) = info.name
     /\ get_qualified_name(t, c) = info.qualified_name}

\* The registry is as collect_all_types left it.
Collected == pc \in {"filter", "process"}

\* C12 as stated: a qualified name met again keeps the entry it has, the
\* one made for its first declaration.
C12_FirstEntryKept ==
  Collected =>
    LET t == TU
    IN  \A i \in 1..Len(type_infos) :
          type_infos[i].cursor = Min(Redeclarations(t, type_infos[i]))

\* C12 amended: the registry never holds two entries of one qualified name;
\* a qualified name met again in the same header has its entry overwritten
\* where it stands, so that the entry is the one of the last declaration at
\* the place of the first; and a process_header call that parses its header
\* empties the registry before it collects.
C12_OneEntryOverwritten ==
  /\ [](\A i, j \in 1..Len(type_infos) :
          type_infos[i].qualified_name = type_infos[j].qualified_name => i = j)
  /\ [](Collected =>
          LET t == TU
              first == [i \in 1..Len(type_infos) |-> Min(Redeclarations(t, type_infos[i]))]
              last == [i \in 1..Len(type_infos) |-> Max(Redeclarations(t, type_infos[i]))]
          IN  \A i \in 1..Len(type_infos) :
                /\ type_infos[i] = type_info(t, last[i])
                /\ \A j \in 1..Len(type_infos) : i < j => first[i] < first[j])
  /\ [][(pc = "headers" /\ pc' = "scan") => type_infos' = << >>]_vars

\* C12 witness: re.h, which declares struct R and then defines it, has been
\* collected after another header; the registry holds one entry for R, made
\* for the definition.
C12_Witness ==
  /\ pc = "filter"
  /\ header_file = p_re
  /\ headers_done = 1
  /\ Len(type_infos) = 1
  /\ type_infos[1].qualified_name = <<"R">>
  /\ Cardinality(Redeclarations(TU, type_infos[1])) = 2
  /\ TU[type_infos[1].cursor].children # << >>

\* The arguments of the output lines of one kind, in the order written.
ArgsOf(kind) ==
  LET at == SelectSeq([i \in 1..Len(output) |-> i], LAMBDA i : output[i].line = kind)
  IN  [k \in 1..Len(at) |-> output[at[k]].arg]

\* No element of the sequence is below the one before it.
Ascending(seq) ==
  \A k \in 1..(Len(seq) - 1) : seq[k] = seq[k + 1] \/ StrLess(seq[k], seq[k + 1])

\* The inclusion lines are sorted, one for every processed file.
IncludesSorted ==
  /\ Ascending(ArgsOf("include"))
  /\ Len(ArgsOf("include")) = Cardinality(processed_files)
  /\ {ArgsOf("include")[k] : k \in 1..Len(ArgsOf("include"))} = processed_files

\* The lines of the external types are sorted, one for every name.
ExternalsSorted ==
  /\ Ascending(ArgsOf("external"))
  /\ Len(ArgsOf("external")) = Cardinality(external_types)
  /\ {ArgsOf("external")[k] : k \in 1..Len(ArgsOf("external"))} = external_types

\* The lines of the skipped types are sorted.
SkippedSorted == Ascending(ArgsOf("skipped"))

\* C13: in the output generate() writes, the inclusion lines of the input
\* files are sorted with one line per file, and the comment block lists the
\* external type names sorted and the skipped-type reasons sorted, in
\* whatever order they were recorded.
C13_SortedOutput ==
  Written => (IncludesSorted /\ ExternalsSorted /\ SkippedSorted)

\* The sequence before is the beginning of the sequence after.
Extends(before, after) ==
  Len(before) <= Len(after) /\ SubSeq(after, 1, Len(before)) = before

\* C14: no step of a run, of any phase of process_header on its success or
\* failure path or of generate, takes an element out of external_types,
\* skipped_types, registered_types or resolved_types: each holds after the
\* step what it held before it.
C14_OnlyGrow ==
  [][/\ external_types \subseteq external_types'
     /\ registered_types \subseteq registered_types'
     /\ resolved_types \subseteq resolved_types'
     /\ Extends(skipped_types, skipped_types')]_vars

\* C14 witness: inc.h and then a.h have been processed and the output
\* written; external_types holds what inc.h put there, registered_types and
\* resolved_types the types of both headers, skipped_types the entries of a.h.
C14_Witness ==
  /\ Written
  /\ headers = << p_inc, p_a >>
  /\ headers_done = 2
  /\ <<"P">> \in external_types
  /\ {<<"W">>, <<"P">>} \subseteq resolved_types
  /\ {<<"W">>, <<"P">>} \subseteq registered_types
  /\ \E i, j \in 1..Len(skipped_types) :
       /\ i < j
       /\ skipped_types[i] = Skipped(<<"H", "i", "d", "d", "e", "n">>, "non-public type")
       /\ skipped_types[j] = Skipped(<<"Q">>, "no reflectable public members")

\* The process_header call of this step returns False.
HeaderFails ==
  /\ pc = "headers"
  /\ headers_done' = headers_done + 1
  /\ parse(headers[headers_done + 1]).raises

\* The headers of the list that process_header does not fail on.
Succeeding == SelectSeq(headers, LAMBDA h : ~parse(h).raises)

\* The fragments the output holds, in the order written.
WrittenFragments == ArgsOf("registration")

\* C15: in a run over a list of headers, a header that fails leaves the
\* loop going and the fragments of the headers before it in place and
\* clears success; generate() is called only when every header of the list
\* has been processed; and the output it writes holds every fragment of the
\* headers that succeeded, with the exit code 1.
C15_FailureIsLocal ==
  /\ [][(mode = "list" /\ HeaderFails) =>
          /\ pc' = "headers"
          /\ success' = FALSE
          /\ UNCHANGED << namespace_registrations, registered_types, resolved_types >>]_vars
  /\ [][(pc = "headers" /\ pc' = "done") => headers_done = Len(headers)]_vars
  /\ []((mode = "list" /\ HeaderFailed) => ~success)
  /\ []((mode = "list" /\ HeaderFailed /\ Written) =>
          /\ exit_code = 1
          /\ namespace_registrations = RunHeaders(Succeeding).namespace_registrations
          /\ \A p \in FragmentPositions(namespace_registrations) :
               \E k \in 1..Len(WrittenFragments) :
                 WrittenFragments[k] = FragmentAt(namespace_registrations, p))

\* C15 witness: the list is bad.h, which cannot be parsed, and then a.h; both
\* have been processed, success is cleared, and the output written holds
\* the fragment of a.h's struct P.
C15_Witness ==
  /\ Written
  /\ mode = "list"
  /\ headers = << p_bad, p_a >>
  /\ headers_done = 2
  /\ ~success
  /\ exit_code = 1
  /\ \E k \in 1..Len(WrittenFragments) : WrittenFragments[k].fqn = <<"P">>

\* The declarations of the translation unit that stand for collection on
\* their own: a class, struct or enum of a processed file that has a name,
\* is no generic template and is not external by the file test.
StandsForCollection(c) ==
  /\ TU[c].kind \in TypeKinds
  /\ TU[c].file # << >>
  /\ normpath(TU[c].file) \in processed_files
  /\ type_name_of(TU, c) # << >>
  /\ ~Contains(type_name_of(TU, c), s_unnamed)
  /\ ~(is_template_class(TU, c) /\ ~is_template_specialization(TU, c))
  /\ ~is_external_type(TU, c, processed_files)

\* C16: collect_all_types reaches every declaration of the processed files,
\* whatever became of the declarations around it: when it has run, every
\* named class, struct or enum that stands for collection has a TypeInfo,
\* also one nested in an unnamed aggregate, a generic template or a type
\* that is external by the file test.
C16_NestedTypesReached ==
  pc = "filter" =>
    \A c \in 1..Len(TU) :
      StandsForCollection(c) =>
        \E i \in 1..Len(type_infos) :
          type_infos[i].qualified_name = get_qualified_name(TU, c)

\* filter_public_types runs in this step.
FilterStep == pc = "filter" /\ pc' = "process"

\* The positions of the registry whose type is not public all the way up.
NotTrulyPublic ==
  {i \in 1..Len(type_infos) : ~is_truly_public(TU, type_infos[i].cursor)}

\* The position in the registry of the k-th entry that is kept.
KeptAt(k) ==
  CHOOSE i \in (1..Len(type_infos)) \ NotTrulyPublic :
    Cardinality({j \in (1..i) \ NotTrulyPublic : TRUE}) = k

\* The position in the registry of the k-th entry that is removed.
RemovedAt(k) ==
  CHOOSE i \in NotTrulyPublic : Cardinality({j \in NotTrulyPublic : j <= i}) = k

\* C17: filter_public_types takes out of the registry the entries of the
\* types that are not truly public and no other, leaves the rest as they
\* are and in their order, appends to skipped_types one "non-public type"
\* entry for each entry taken out, and changes nothing of external_types,
\* resolved_types, registered_types and the fragments.
C17_FilterIsPure ==
  [][FilterStep =>
       /\ Len(type_infos') = Len(type_infos) - Cardinality(NotTrulyPublic)
       /\ \A k \in 1..Len(type_infos') : type_infos'[k] = type_infos[KeptAt(k)]
       /\ Len(skipped_types') = Len(skipped_types) + Cardinality(NotTrulyPublic)
       /\ Extends(skipped_types, skipped_types')
       /\ \A k \in 1..Cardinality(NotTrulyPublic) :
            skipped_types'[Len(skipped_types) + k]
              = Skipped(type_infos[RemovedAt(k)].name, "non-public type")
       /\ UNCHANGED << external_types, resolved_types, registered_types,
                       namespace_registrations >>]_vars

\* C17 witness: a.h has been collected and filtered after another header;
\* Hidden, private in Outer, and Deep, public in Hidden, are out of the
\* registry and logged, P, Q, Outer and Outer::Vis are left in that order.
C17_Witness ==
  /\ pc = "process"
  /\ idx = 1
  /\ header_file = p_a
  /\ headers_done = 1
  /\ [i \in 1..Len(type_infos) |-> type_infos[i].qualified_name]
       = << <<"P">>, <<"Q">>, <<"O", "u", "t", "e", "r">>, <<"O", "u", "t", "e", "r", ":", ":", "V", "i", "s">> >>
  /\ Len(skipped_types) >= 2
  /\ skipped_types[Len(skipped_types) - 1] = Skipped(<<"H", "i", "d", "d", "e", "n">>, "non-public type")
  /\ skipped_types[Len(skipped_types)] = Skipped(<<"D", "e", "e", "p">>, "non-public type")

\* The text names a type of external_types.
NamesExternal(text) == \E ext \in external_types : Contains(text, ext)

\* The member m of the aggregate c is one process_class binds: a field, a
\* method or a constructor that is public where it stands, is not static,
\* and names no external type in its type, its result or its arguments.
Survives(c, m) ==
  /\ AccessInForce(TU, m) = "PUBLIC"
  /\ ~TU[m].is_static
  /\ \/ /\ TU[m].kind = "FIELD_DECL"
        /\ ~NamesExternal(get_fully_qualified_type(TU[m].type))
     \/ /\ TU[m].kind = "CXX_METHOD"
        /\ TU[m].spelling # type_name_of(TU, c)
        /\ ~StartsWith(TU[m].spelling, << "~" >>)
        /\ ~NamesExternal(TU[m].result_type)
        /\ \A k \in 1..Len(TU[m].arguments) : ~NamesExternal(TU[m].arguments[k])
     \/ /\ TU[m].kind = "CONSTRUCTOR"
        /\ \A k \in 1..Len(TU[m].arguments) : ~NamesExternal(TU[m].arguments[k])

Survivors(c) ==
  {k \in 1..Len(TU[c].children) : Survives(c, TU[c].children[k])}

\* C18: when process_class comes to a class or struct that is not yet
\* registered and no property, method or constructor of it survives, it
\* adds no fragment, appends one skipped_types entry with the reason "no
\* reflectable public members", and leaves registered_types and
\* resolved_types as they are; a declaration with that qualified name that
\* has a surviving member, met while the name is not registered, is
\* registered and resolved with one fragment, whatever was skipped before.
C18_NoMembersNoTrace ==
  [][(/\ ProcessStep
      /\ TU[type_infos[idx].cursor].kind \in AggregateKinds
      /\ StandsForCollection(type_infos[idx].cursor)
      /\ type_infos[idx].qualified_name \notin registered_types) =>
       LET c == type_infos[idx].cursor
           fqn == type_infos[idx].qualified_name
           new == NewFragments(namespace_registrations, namespace_registrations')
       IN  IF Survivors(c) = {}
           THEN /\ new = {}
                /\ skipped_types'
                     = Append(skipped_types, Skipped(fqn, "no reflectable public members"))
                /\ UNCHANGED << registered_types, resolved_types >>
           ELSE /\ Cardinality(new) = 1
                /\ \A p \in new : FragmentAt(namespace_registrations', p).fqn = fqn
                /\ fqn \in registered_types'
                /\ fqn \in resolved_types'
                /\ skipped_types' = skipped_types]_vars

\* C18 witness: fwd.h, which only declares struct P, was processed first and
\* P was skipped for having no members; a.h, which defines P, came second
\* and its P has just been registered with a fragment.
C18_Witness ==
  /\ JustProcessed
  /\ headers = << p_fwd, p_a >>
  /\ headers_done = 1
  /\ type_infos[idx - 1].qualified_name = <<"P">>
  /\ \E i \in 1..Len(skipped_types) :
       skipped_types[i] = Skipped(<<"P">>, "no reflectable public members")
  /\ <<"P">> \in registered_types
  /\ <<"P">> \in resolved_types
  /\ Cardinality(FragmentsNamed(namespace_registrations, <<"P">>)) = 1

\* A process_header call is between its parse and its return.
InsideHeader == pc \in {"scan", "collect", "filter", "process"}

C20_FragmentsAreResolved ==
  LET regs == namespace_registrations
  IN  /\ resolved_types \subseteq registered_types
      /\ Cardinality(FragmentPositions(regs)) = Cardinality(resolved_types)
      /\ \A fqn \in resolved_types : Cardinality(FragmentsNamed(regs, fqn)) = 1
      /\ \A p \in FragmentPositions(regs) : FragmentAt(regs, p).fqn \in resolved_types
      /\ \A fqn \in registered_types \ resolved_types : FragmentsNamed(regs, fqn) = {}

\* C20 witness: fwd.h and then ns.h have been processed; the enum E that
\* fwd.h declares without enumerators is registered and not resolved, and
\* the six types of ns.h are resolved with six fragments in three namespaces.
C20_Witness ==
  /\ pc = "headers"
  /\ headers = << p_fwd, p_ns >>
  /\ headers_done = 2
  /\ <<"E">> \in registered_types \ resolved_types
  /\ Cardinality(resolved_types) = 6
  /\ Cardinality(FragmentPositions(namespace_registrations)) = 6
  /\ Cardinality(DOMAIN namespace_registrations) = 3

\* C21: in every state of a run every name held in external_types is a
\* string of at least one character, also a name recorded for an unnamed
\* class, struct or enum of a file outside the processed ones; so that the
\* test for members that name an external type never rejects a member for
\* the empty string alone.
C21_ExternalNamesNonEmpty ==
  \A name \in external_types : name # << >>

====
